---- MODULE Spec2Model ----
(***************************************************************************)
(* Oura Ring MCP adapter.                                                  *)
(*                                                                         *)
(* Two programs are modelled:                                              *)
(*   - OuraMCPServer (src/server.py): a process holding `auth` and         *)
(*     `client`, with five tools routed by handle_call_tool;               *)
(*   - the FastMCP variant (src/src/oura_server/server.py): stateless      *)
(*     tools reading the session configuration `config`.                   *)
(*                                                                         *)
(* The upstream services (the provider's token endpoint and the sleep      *)
(* collection endpoint) are the environment: every call draws the          *)
(* upstream's answer from a bounded set.  `call` is the last tool call,    *)
(* `result` what it gave back to its caller (a text, or an exception that  *)
(* left the handler) and `http` the requests it sent, with their answers.  *)
(* A handler of OuraMCPServer that awaits an HTTP answer returns to the     *)
(* event loop and finishes in a later step; `call`, `result` and `http`    *)
(* are written when a call returns.  `tasks` are the invocations under     *)
(* way on one OuraMCPServer: the bag of the handlers that await where      *)
(* calls come and go, and each of a fixed number of concurrent invocations *)
(* with the place its handler has reached where their interleavings are    *)
(* studied; `log` holds the calls those completed, in order of completion. *)
(* The tools of the FastMCP variant are synchronous functions.             *)
(*                                                                         *)
(* Python values: None is the empty sequence and a present value v is      *)
(* <<v>>; a dict is a function whose DOMAIN is the set of its keys.  A     *)
(* string that is encoded into a URL or parsed out of one is the sequence  *)
(* of its characters.                                                      *)
(***************************************************************************)
EXTENDS Integers, Sequences, FiniteSets, Bags, TLC

VARIABLES env, config, feed, auth, client, call, result, http, tasks, log

vars == <<env, config, feed, auth, client, call, result, http, tasks, log>>

-----------------------------------------------------------------------------
(* Bounds of the model *)

MaxRecords == 3
MaxDay == 2
MaxText == 2
MaxTasks == 3
MaxAwaiting == 1

-----------------------------------------------------------------------------
(* Python values *)

None == <<>>

Some(v) == <<v>>

\* Python truthiness of an Optional[str]: None and "" are falsy
Falsy(opt) == opt = None \/ Len(opt[1]) = 0

\* dict.get(key, default)
Get(d, key, default) == IF key \in DOMAIN d THEN d[key] ELSE default

\* JSON null in a numeric field (the scores are never negative)
Null == -1

\* str(n) of a natural number
Digit == <<"0", "1", "2", "3", "4", "5", "6", "7", "8", "9">>

RECURSIVE Str(_)
Str(n) == IF n < 10 THEN Digit[n + 1] ELSE Str(n \div 10) \o Digit[(n % 10) + 1]

-----------------------------------------------------------------------------
(* urllib.parse: the query string of a URL *)

\* the characters quote_plus escapes, with the two hexadecimal digits of
\* their code; every other character of the model's texts is a letter, a
\* digit or one of "_.-~", which are never escaped
PercentCodes ==
    ("&" :> <<"2", "6">>) @@ ("=" :> <<"3", "D">>) @@ ("%" :> <<"2", "5">>) @@
    ("+" :> <<"2", "B">>) @@ ("/" :> <<"2", "F">>) @@ (":" :> <<"3", "A">>) @@
    ("#" :> <<"2", "3">>) @@ ("?" :> <<"3", "F">>)

\* mutant: the text goes into the query string as it is
quote_plus_Unescaped(s) == s

\* quote_plus(s): a space becomes "+", a reserved character "%XX"; the
\* text is escaped half by half
RECURSIVE quote_plus(_)
quote_plus(s) ==
    IF Len(s) = 0 THEN <<>>
    ELSE IF Len(s) = 1
    THEN (IF s[1] = " " THEN <<"+">>
          ELSE IF s[1] \in DOMAIN PercentCodes
               THEN <<"%">> \o PercentCodes[s[1]]
               ELSE s)
    ELSE quote_plus(SubSeq(s, 1, Len(s) \div 2))
         \o quote_plus(SubSeq(s, Len(s) \div 2 + 1, Len(s)))

\* urlencode(params): key=value of every pair of the dict, in its order,
\* joined by "&"
RECURSIVE urlencode(_)
urlencode(params) ==
    IF Len(params) = 0 THEN <<>>
    ELSE quote_plus(Head(params)[1]) \o <<"=">> \o quote_plus(Head(params)[2])
         \o (IF Len(params) = 1 THEN <<>>
             ELSE <<"&">> \o urlencode(Tail(params)))

\* the index of the first `c` in s, or 0
Find(s, c) ==
    IF \E i \in DOMAIN s : s[i] = c
    THEN CHOOSE i \in DOMAIN s :
            s[i] = c /\ \A j \in 1..(i - 1) : s[j] # c
    ELSE 0

\* s.split(c): the pieces of s between the occurrences of c
RECURSIVE Split(_, _)
Split(s, c) ==
    LET i == Find(s, c)
    IN  IF i = 0 THEN <<s>>
        ELSE <<SubSeq(s, 1, i - 1)>> \o Split(SubSeq(s, i + 1, Len(s)), c)

\* unquote(s.replace("+", " ")): "+" is a space and "%XX" the character of
\* that code; a "%" that no code follows stays.  The two digits of a code
\* are never "%", so the codes of a text do not overlap: the characters of
\* the result are those at the positions that are not a digit of a code
unquote_plus(s) ==
    LET Code(i) == /\ s[i] = "%"
                   /\ i + 2 <= Len(s)
                   /\ \E c \in DOMAIN PercentCodes :
                         PercentCodes[c] = <<s[i + 1], s[i + 2]>>
        Digits(i) == \/ (i > 1 /\ Code(i - 1))
                     \/ (i > 2 /\ Code(i - 2))
        At(i) == IF s[i] = "+" THEN " "
                 ELSE IF Code(i)
                 THEN CHOOSE c \in DOMAIN PercentCodes :
                         PercentCodes[c] = <<s[i + 1], s[i + 2]>>
                 ELSE s[i]
        kept == SelectSeq([i \in 1..Len(s) |-> i], LAMBDA i : ~Digits(i))
    IN  [k \in 1..Len(kept) |-> At(kept[k])]

\* the pairs of the fields of a query string: an empty field is skipped, a
\* field without "=" has an empty value, and a pair with an empty value is
\* kept only when keep_blank_values is set
RECURSIVE ParseFields(_, _)
ParseFields(fields, keep_blank_values) ==
    IF Len(fields) = 0 THEN <<>>
    ELSE LET nv == Head(fields)
             i == Find(nv, "=")
             name == IF i = 0 THEN nv ELSE SubSeq(nv, 1, i - 1)
             value == IF i = 0 THEN <<>> ELSE SubSeq(nv, i + 1, Len(nv))
             kept == /\ Len(nv) > 0
                     /\ (i > 0 \/ keep_blank_values)
                     /\ (Len(value) > 0 \/ keep_blank_values)
         IN  (IF kept THEN << <<unquote_plus(name), unquote_plus(value)>> >>
              ELSE <<>>)
             \o ParseFields(Tail(fields), keep_blank_values)

\* urllib.parse.parse_qsl(qs, keep_blank_values)
parse_qsl(qs, keep_blank_values) ==
    ParseFields(Split(qs, "&"), keep_blank_values)

\* the first value of `name` among the pairs, which hold one:
\* parse_qs(...)[name][0]
RECURSIVE FirstValue(_, _)
FirstValue(pairs, name) ==
    IF Head(pairs)[1] = name THEN Head(pairs)[2]
    ELSE FirstValue(Tail(pairs), name)

\* name in parse_qs(...)
HasName(pairs, name) == \E i \in DOMAIN pairs : pairs[i][1] = name

Letters ==
    {"a", "b", "c", "d", "e", "f", "g", "h", "i", "j", "k", "l", "m",
     "n", "o", "p", "q", "r", "s", "t", "u", "v", "w", "x", "y", "z"}

\* the characters of a URL scheme
SchemeChars == Letters \cup {Digit[i] : i \in DOMAIN Digit} \cup {"+", "-", "."}

\* the bracketed hosts of the model's URLs that are IPv6 addresses
IPv6Literals == {<<":", ":", "1">>}

\* the text of s before the first of the characters `stops`
Before(s, stops) ==
    IF \E i \in DOMAIN s : s[i] \in stops
    THEN SubSeq(s, 1, (CHOOSE i \in DOMAIN s :
                          s[i] \in stops /\ \A j \in 1..(i - 1) : s[j] \notin stops) - 1)
    ELSE s

\* s.split(c, 1)[1], or "" when s holds no c
After(s, c) ==
    IF Find(s, c) = 0 THEN <<>> ELSE SubSeq(s, Find(s, c) + 1, Len(s))

\* mutant: the host of the URL is not looked at
urlparse_Unchecked(url) ==
    [error |-> None, query |-> After(Before(url, {"#"}), "?")]

\* urllib.parse.urlparse(url): the ValueError it raises, on a host with an
\* unmatched bracket or with a bracketed host that is no IPv6 address, and
\* the query it returns otherwise, the text between the first "?" and the
\* first "#"
urlparse(url) ==
    LET i == Find(url, ":")
        scheme == /\ i > 1
                  /\ url[1] \in Letters
                  /\ \A k \in 1..(i - 1) : url[k] \in SchemeChars
        rest == IF scheme THEN SubSeq(url, i + 1, Len(url)) ELSE url
        netloc == IF Len(rest) >= 2 /\ rest[1] = "/" /\ rest[2] = "/"
                  THEN Before(SubSeq(rest, 3, Len(rest)), {"/", "?", "#"})
                  ELSE <<>>
        open == Find(netloc, "[") > 0
        close == Find(netloc, "]") > 0
        bracketed_host == Before(After(netloc, "["), {"]"})
    IN  [error |-> IF open # close THEN Some("Invalid IPv6 URL")
                       ELSE IF open /\ bracketed_host \notin IPv6Literals
                       THEN Some("does not appear to be an IPv4 or IPv6 address")
                       ELSE None,
         query |-> After(Before(url, {"#"}), "?")]

-----------------------------------------------------------------------------
(* Outcome of a call *)

\* a handler returned a text: `msg` names which one, `detail` is what the
\* text interpolates (str(e) of a caught exception, expires_in)
Text(msg, detail) ==
    [kind |-> "text", msg |-> msg, detail |-> detail,
     url |-> None, lines |-> <<>>, avg |-> None]

\* an exception left the handler
Raise(msg, detail) ==
    [kind |-> "raise", msg |-> msg, detail |-> detail,
     url |-> None, lines |-> <<>>, avg |-> None]

\* the request of a call: which program, which tool, which arguments
Request(server, tool, arguments) ==
    [server |-> server, tool |-> tool, arguments |-> arguments]

\* one request of the log: the endpoint, what authenticated it, its answer
TokenRequest(code, resp) ==
    [endpoint |-> "token", bearer |-> "", code |-> code, resp |-> resp]

SleepRequest(bearer, resp) ==
    [endpoint |-> "sleep", bearer |-> bearer, code |-> "", resp |-> resp]

-----------------------------------------------------------------------------
(* The upstream services *)

\* access tokens a caller may supply; the API accepts only the valid ones
Tokens == {"", "tokA", "tokB"}

ValidTokens == {"tokA"}

Codes == {"code1"}

Scopes == {<<"p", "e", "r", "s", "o", "n", "a", "l", " ", "d", "a", "i", "l", "y">>,
           <<"d", "a", "i", "l", "y">>}

\* values secrets.token_urlsafe(32) may return
Nonces == {<<"n", "1">>, <<"n", "-", "_", "2">>}

\* how one HTTP exchange ends: a 2xx answer, a non-2xx answer
\* (raise_for_status raises), or no answer at all (the request raises)
Transports == {"ok", "http_error", "network_error"}

\* the JSON object of a 2xx token answer: any subset of the fields the
\* handlers read
TokenFields == {"access_token", "expires_in", "token_type"}

TokenBody(S, t) ==
    [k \in S |-> IF k = "access_token" THEN t
                 ELSE IF k = "expires_in" THEN "86400" ELSE "bearer"]

TokenBodies == {TokenBody(S, t) : S \in SUBSET TokenFields, t \in {"", "tokA"}}

TokenResponses ==
    {[status |-> "ok", body |-> b] : b \in TokenBodies}
    \cup {[status |-> s, body |-> <<>>] : s \in {"http_error", "network_error"}}

\* the provider's answers to the exchange of a code found in a URL
RedirectResponses ==
    {[status |-> "ok", body |-> TokenBody(TokenFields, "tokA")],
     [status |-> "ok", body |-> TokenBody({"access_token"}, "tokA")],
     [status |-> "http_error", body |-> <<>>]}

\* a sleep record of the API: a dict with the keys "day" and "score", either
\* of which may be missing; day d is the date 2025-10-0d, a score may be null
Scores == {0, 10, 20, 30}

RecordKeys == {"day", "score"}

SleepRecord(S, d, s) == [k \in S |-> IF k = "day" THEN d ELSE s]

SleepRecords ==
    {SleepRecord(S, d, s) :
        S \in SUBSET RecordKeys, d \in 1..MaxDay, s \in Scores \cup {Null}}

RecordLists(n) == UNION {[1..k -> SleepRecords] : k \in 0..n}

\* the JSON object of a 2xx sleep answer: {"data": [...]} or {}
WeekFeeds == {<<>>} \cup {[data |-> l] : l \in RecordLists(MaxRecords)}

ServerFeeds ==
    {<<>>, [data |-> <<>>],
     [data |-> <<[day |-> 1, score |-> 20]>>],
     [data |-> <<[day |-> 1, score |-> Null], [day |-> 2, score |-> 0]>>]}

\* the answer to a sleep request: the API rejects a bearer it does not know
SleepResponse(bearer, transport, body) ==
    IF transport = "network_error" THEN [status |-> "network_error", body |-> <<>>]
    ELSE IF transport = "http_error" \/ bearer \notin ValidTokens
         THEN [status |-> "http_error", body |-> <<>>]
         ELSE [status |-> "ok", body |-> body]

\* str(e) of the exception an unanswered or non-2xx request raises
HttpErrorText(status) ==
    IF status = "http_error" THEN "HTTPStatusError"
    ELSE IF status = "network_error" THEN "ConnectError"
    ELSE "AttributeError"

-----------------------------------------------------------------------------
(* src/server.py: OuraAuth, OuraClient *)

MCP == "OuraMCPServer"

DefaultRedirectUri ==
    <<"h", "t", "t", "p", ":", "/", "/", "l", "o", "c", "a", "l", "h", "o", "s", "t">> \o
    <<":", "8", "0", "8", "0", "/", "c", "a", "l", "l", "b", "a", "c", "k">>

\* str(v) of an Optional[str], as urlencode takes a value that is no string
OptText(opt) == IF opt = None THEN <<"N", "o", "n", "e">> ELSE opt[1]

\* the fields are kept as given: what os.getenv returned
OuraAuth(client_id, client_secret, redirect_uri) ==
    [client_id |-> client_id, client_secret |-> client_secret,
     redirect_uri |-> redirect_uri,
     authorize_url |-> "https://cloud.ouraring.com/oauth/authorize"]

\* the names of the query parameters
Key_response_type == <<"r", "e", "s", "p", "o", "n", "s", "e", "_", "t", "y", "p", "e">>

Key_client_id == <<"c", "l", "i", "e", "n", "t", "_", "i", "d">>

Key_redirect_uri == <<"r", "e", "d", "i", "r", "e", "c", "t", "_", "u", "r", "i">>

Key_scope == <<"s", "c", "o", "p", "e">>

Key_state == <<"s", "t", "a", "t", "e">>

Value_code == <<"c", "o", "d", "e">>

\* f"{self.authorize_url}?{urlencode(params)}": the URL as its endpoint and
\* the query string behind the "?"
get_authorization_url(a, state, scope) ==
    LET params == << <<Key_response_type, Value_code>>,
                     <<Key_client_id, OptText(a.client_id)>>,
                     <<Key_redirect_uri, OptText(a.redirect_uri)>>,
                     <<Key_scope, scope>>, <<Key_state, state>> >>
    IN  [endpoint |-> a.authorize_url, query |-> urlencode(params)]

OuraClient(access_token) == [cls |-> "OuraClient", access_token |-> access_token]

\* the object the test installs as client: it has an access_token and no
\* get_sleep_data
MockClient == [cls |-> "MockClient", access_token |-> "invalid_token"]

\* mutant: without raise_for_status a non-2xx answer is read as a body, which
\* has no data
get_sleep_data_NoRaise(c, transport) ==
    IF c = None \/ c[1].cls # "OuraClient"
    THEN [resp |-> [status |-> "attribute_error", body |-> <<>>], sent |-> <<>>]
    ELSE LET resp == SleepResponse(c[1].access_token, transport, feed)
         IN  [resp |-> IF resp.status = "http_error"
                       THEN [status |-> "ok", body |-> <<>>] ELSE resp,
              sent |-> <<SleepRequest(c[1].access_token, resp)>>]

\* self.client.get_sleep_data(...): the answer and the request sent for it;
\* on None, or on an object without the method, the attribute lookup raises
\* and nothing is sent
get_sleep_data(c, transport) ==
    IF c = None \/ c[1].cls # "OuraClient"
    THEN [resp |-> [status |-> "attribute_error", body |-> <<>>], sent |-> <<>>]
    ELSE LET resp == SleepResponse(c[1].access_token, transport, feed)
         IN  [resp |-> resp, sent |-> <<SleepRequest(c[1].access_token, resp)>>]

\* mutant: a handler that reports a failure drops the client
Outcome_DropsClientOnError(a, c, r, h) ==
    [auth |-> a,
     client |-> IF r.msg \in {"ExchangeError", "FetchError"} THEN None ELSE c,
     result |-> r, http |-> h]

\* what a handler leaves behind: the fields of self, what it returned (or
\* raised) and the requests it sent
Outcome(a, c, r, h) == [auth |-> a, client |-> c, result |-> r, http |-> h]

-----------------------------------------------------------------------------
(* src/server.py: the handlers of OuraMCPServer *)

\* mutant: only client_id is looked at
CredentialsMissing_IdOnly(e) == Falsy(e.client_id)

\* not client_id or not client_secret
CredentialsMissing(e) == Falsy(e.client_id) \/ Falsy(e.client_secret)

_handle_auth(arguments, nonce) ==
    LET scope == Get(arguments, "scope", <<"p", "e", "r", "s", "o", "n", "a", "l", " ", "d", "a", "i", "l", "y">>)
        redirect_uri == IF env.redirect_uri = None THEN Some(DefaultRedirectUri)
                        ELSE env.redirect_uri
    IN  IF auth = None /\ CredentialsMissing(env)
        THEN Outcome(auth, client, Text("ConfigurationError", ""), <<>>)
        ELSE LET a == IF auth = None
                      THEN OuraAuth(env.client_id, env.client_secret, redirect_uri)
                      ELSE auth[1]
             IN  Outcome(Some(a), client,
                         [Text("AuthUrl", "")
                            EXCEPT !.url = Some(get_authorization_url(a, nonce, scope))],
                         <<>>)

\* mutant: token_data.get("access_token") in place of token_data["access_token"]
ExchangeReport_GetToken(arguments, resp) ==
    LET sent == <<TokenRequest(arguments["code"], resp)>>
        token == Get(resp.body, "access_token", "None")
    IN  IF resp.status # "ok"
        THEN Outcome(auth, client,
                     Text("ExchangeError", HttpErrorText(resp.status)), sent)
        ELSE IF "expires_in" \notin DOMAIN resp.body
        THEN Outcome(auth, Some(OuraClient(token)),
                     Text("ExchangeError", "'expires_in'"), sent)
        ELSE Outcome(auth, Some(OuraClient(token)),
                     Text("Authenticated", resp.body["expires_in"]), sent)

\* the try block of _handle_exchange_code from the point where the awaited
\* exchange_code_for_token is answered: `resp` is the provider's answer;
\* `client` is self.client at that point
ExchangeReport(arguments, resp) ==
    LET sent == <<TokenRequest(arguments["code"], resp)>>
        Failed(c, detail) ==
            Outcome(auth, c, Text("ExchangeError", detail), sent)
    IN  IF resp.status # "ok"
        THEN Failed(client, HttpErrorText(resp.status))
        ELSE IF "access_token" \notin DOMAIN resp.body
        THEN Failed(client, "'access_token'")
        \* self.client is assigned before the message reads expires_in
        ELSE IF "expires_in" \notin DOMAIN resp.body
        THEN Failed(Some(OuraClient(resp.body["access_token"])),
                    "'expires_in'")
        ELSE Outcome(auth, Some(OuraClient(resp.body["access_token"])),
                     Text("Authenticated", resp.body["expires_in"]),
                     sent)

\* mutant: the handler without its check of self.auth
_handle_exchange_code_NoAuthCheck(arguments, resp) ==
    IF "code" \notin DOMAIN arguments
    THEN Outcome(auth, client, Raise("KeyError", "'code'"), <<>>)
    ELSE ExchangeReport(arguments, resp)

\* the handler as a whole; `resp` is the provider's answer, should the
\* handler come to ask
_handle_exchange_code(arguments, resp) ==
    IF "code" \notin DOMAIN arguments
    THEN Outcome(auth, client, Raise("KeyError", "'code'"), <<>>)
    ELSE IF auth = None
    THEN Outcome(auth, client, Text("MustCallAuthFirst", ""), <<>>)
    ELSE ExchangeReport(arguments, resp)

_handle_set_token(arguments) ==
    IF "access_token" \notin DOMAIN arguments
    THEN Outcome(auth, client, Raise("KeyError", "'access_token'"), <<>>)
    ELSE Outcome(auth, Some(OuraClient(arguments["access_token"])),
                 Text("TokenSet", ""), <<>>)

-----------------------------------------------------------------------------
(* Sorting and averaging the records of a week *)

Reverse(l) == [i \in 1..Len(l) |-> l[Len(l) + 1 - i]]

\* the sort key x.get("day", ""): the empty string is below every date
DayKey(record) == Get(record, "day", 0)

\* x goes behind every element whose key is not above its own
RECURSIVE Insert(_, _)
Insert(sorted, x) ==
    IF sorted = <<>> THEN <<x>>
    ELSE IF DayKey(x) < DayKey(Head(sorted)) THEN <<x>> \o sorted
    ELSE <<Head(sorted)>> \o Insert(Tail(sorted), x)

RECURSIVE SortAscending(_)
SortAscending(l) ==
    IF l = <<>> THEN <<>>
    ELSE Insert(SortAscending(SubSeq(l, 1, Len(l) - 1)), l[Len(l)])

\* mutant: sort ascending, then reverse, which turns equal keys around
ListSort_Unstable(l, reverse) ==
    IF reverse THEN Reverse(SortAscending(l)) ELSE SortAscending(l)

\* list.sort(key=DayKey, reverse=...): a stable sort; with reverse the list
\* is reversed, sorted and reversed again, which keeps equal keys in order
ListSort(l, reverse) ==
    IF reverse THEN Reverse(SortAscending(Reverse(l))) ELSE SortAscending(l)

DateText(d) == "2025-10-0" \o Str(d)

\* str() of a score: an integer or None
ScoreText(v) == IF v = Null THEN "None" ELSE Str(v)

\* one line of the week's report: record.get("day", "Unknown") and
\* record.get("score", "N/A")
WeekLine(record) ==
    [date |-> IF "day" \in DOMAIN record THEN DateText(record["day"]) ELSE "Unknown",
     score |-> IF "score" \in DOMAIN record THEN ScoreText(record["score"]) ELSE "N/A"]

\* mutant: the truth value of the score is tested, so a score of 0 is dropped
HasScore_Truthy(record) ==
    "score" \in DOMAIN record /\ record["score"] # Null /\ record["score"] # 0

\* record.get("score") is not None
HasScore(record) == "score" \in DOMAIN record /\ record["score"] # Null

\* [record.get("score") for record in records if record.get("score") is not None]
ScoresOf(records) ==
    LET keep == SelectSeq(records, HasScore)
    IN  [i \in 1..Len(keep) |-> keep[i]["score"]]

RECURSIVE Sum(_)
Sum(l) == IF l = <<>> THEN 0 ELSE Head(l) + Sum(Tail(l))

\* f"{total / n:.1f}" for integers total >= 0 and 0 < n < 20: the nearest
\* tenth; a quotient half way between two tenths is then a multiple of 1/4,
\* which the float holds exactly, and goes to the even tenth
FormatOneDecimal(total, n) ==
    LET q == (10 * total) \div n
        r == (10 * total) % n
        tenths == IF 2 * r < n THEN q
                  ELSE IF 2 * r > n THEN q + 1
                  ELSE IF q % 2 = 0 THEN q ELSE q + 1
    IN  Str(tenths \div 10) \o "." \o Str(tenths % 10)

\* the average line: present exactly when some record has a score
AverageLine(records) ==
    LET scores == ScoresOf(records)
    IN  IF scores = <<>> THEN None
        ELSE Some(FormatOneDecimal(Sum(scores), Len(scores)))

\* mutant: only a missing key counts, an empty list is reported as a week
NoData_KeyOnly(body) == "data" \notin DOMAIN body

\* sleep_data.get("data") is falsy: no key, or an empty list
NoData(body) == "data" \notin DOMAIN body \/ body["data"] = <<>>

-----------------------------------------------------------------------------
(* src/server.py: the sleep handlers of OuraMCPServer *)

\* the try block of _handle_last_night_sleep; `c` is the client whose
\* get_sleep_data it calls, `transport` is how the request ends
LastNightReport(c, transport) ==
    LET got == get_sleep_data(c, transport)
    IN  IF got.resp.status # "ok"
        THEN Outcome(auth, client,
                     Text("FetchError", HttpErrorText(got.resp.status)), got.sent)
        ELSE IF NoData(got.resp.body)
        THEN Outcome(auth, client, Text("NoData", ""), got.sent)
        ELSE LET latest_sleep == got.resp.body["data"][1]
                 line == [date |-> IF "day" \in DOMAIN latest_sleep
                                   THEN DateText(latest_sleep["day"]) ELSE "None",
                          score |-> IF "score" \in DOMAIN latest_sleep
                                    THEN ScoreText(latest_sleep["score"])
                                    ELSE "None"]
             IN  Outcome(auth, client,
                         [Text("LastNight", "") EXCEPT !.lines = <<line>>],
                         got.sent)

\* mutant: the handler without its check of self.client
_handle_last_night_sleep_Unchecked(arguments, transport) ==
    LastNightReport(client, transport)

_handle_last_night_sleep(arguments, transport) ==
    IF client = None
    THEN Outcome(auth, client, Text("AuthRequired", ""), <<>>)
    ELSE LastNightReport(client, transport)

\* the try block of _handle_week_sleep
WeekReport(c, transport) ==
    LET got == get_sleep_data(c, transport)
    IN  IF got.resp.status # "ok"
        THEN Outcome(auth, client,
                     Text("FetchError", HttpErrorText(got.resp.status)), got.sent)
        ELSE IF NoData(got.resp.body)
        THEN Outcome(auth, client, Text("NoData", ""), got.sent)
        ELSE LET sleep_records == ListSort(got.resp.body["data"], TRUE)
             IN  Outcome(auth, client,
                         [Text("Week", "")
                             EXCEPT !.lines = [i \in 1..Len(sleep_records) |->
                                                  WeekLine(sleep_records[i])],
                                    !.avg = AverageLine(sleep_records)],
                         got.sent)

_handle_week_sleep(arguments, transport) ==
    IF client = None
    THEN Outcome(auth, client, Text("AuthRequired", ""), <<>>)
    ELSE WeekReport(client, transport)

McpSleepTools == {"oura_last_night_sleep", "oura_week_sleep"}

ToolNames == {"oura_auth", "oura_exchange_code", "oura_set_token",
              "oura_last_night_sleep", "oura_week_sleep"}

\* mutant: the last elif became the else, so any other name is served
handle_call_tool_Fallthrough(name, arguments, io) ==
    IF name = "oura_auth" THEN _handle_auth(arguments, io.nonce)
    ELSE IF name = "oura_exchange_code" THEN _handle_exchange_code(arguments, io.token)
    ELSE IF name = "oura_set_token" THEN _handle_set_token(arguments)
    ELSE IF name = "oura_last_night_sleep"
    THEN _handle_last_night_sleep(arguments, io.transport)
    ELSE _handle_week_sleep(arguments, io.transport)

\* `io` holds what the environment contributes to the call: the state nonce,
\* the provider's answer and how a sleep request ends
handle_call_tool(name, arguments, io) ==
    IF name = "oura_auth" THEN _handle_auth(arguments, io.nonce)
    ELSE IF name = "oura_exchange_code" THEN _handle_exchange_code(arguments, io.token)
    ELSE IF name = "oura_set_token" THEN _handle_set_token(arguments)
    ELSE IF name = "oura_last_night_sleep"
    THEN _handle_last_night_sleep(arguments, io.transport)
    ELSE IF name = "oura_week_sleep" THEN _handle_week_sleep(arguments, io.transport)
    ELSE Outcome(auth, client, Raise("ValueError", "Unknown tool"), <<>>)

\* whether the handler of this call comes to its await and returns to the
\* event loop: oura_exchange_code once it has its code and has found
\* self.auth, a sleep tool once it has found self.client and the client has a
\* get_sleep_data to call; every other call returns without awaiting
\* anything but its own handler
Awaits(name, arguments) ==
    \/ /\ name = "oura_exchange_code"
       /\ "code" \in DOMAIN arguments
       /\ auth # None
    \/ /\ name \in McpSleepTools
       /\ client # None
       /\ client[1].cls = "OuraClient"

-----------------------------------------------------------------------------
(* src/src/oura_server/server.py: the tools of the FastMCP variant *)

FAST == "FastMCP"

\* mutant: a token the provider granted is kept in the session configuration
Returned_StoresToken(r, h) ==
    [result |-> r, http |-> h,
     config |-> IF r.msg = "Authenticated"
                THEN [config EXCEPT !.access_token = h[1].resp.body["access_token"]]
                ELSE config]

\* what a tool leaves behind: what it returned, the requests it sent and the
\* session configuration, which no tool writes
Returned(r, h) == [result |-> r, http |-> h, config |-> config]

ConfigMissing(c) == Len(c.client_id) = 0 \/ Len(c.client_secret) = 0

get_auth_url(scope, nonce) ==
    IF ConfigMissing(config)
    THEN Returned(Text("ConfigurationError", ""), <<>>)
    ELSE LET params == << <<Key_response_type, Value_code>>,
                          <<Key_client_id, config.client_id>>,
                          <<Key_redirect_uri, config.redirect_uri>>,
                          <<Key_scope, scope>>, <<Key_state, nonce>> >>
         IN  Returned(
                [Text("AuthUrl", "") EXCEPT !.url =
                    Some([endpoint |-> "https://cloud.ouraring.com/oauth/authorize",
                          query |-> urlencode(params)])],
                <<>>)

exchange_code(code, resp) ==
    IF ConfigMissing(config)
    THEN Returned(Text("ConfigurationError", ""), <<>>)
    ELSE LET sent == <<TokenRequest(code, resp)>>
             Failed(detail) ==
                 Returned(Text("ExchangeError", detail), sent)
         IN  IF resp.status # "ok" THEN Failed(HttpErrorText(resp.status))
             ELSE IF "access_token" \notin DOMAIN resp.body THEN Failed("'access_token'")
             ELSE IF "expires_in" \notin DOMAIN resp.body THEN Failed("'expires_in'")
             ELSE IF "token_type" \notin DOMAIN resp.body THEN Failed("'token_type'")
             ELSE Returned(Text("Authenticated",
                                resp.body["expires_in"]), sent)

\* the body the three sleep tools share: `date` is the date the heading
\* shows, `week` says whether the tool reports every record
FastSleep(date, week, transport) ==
    IF config.access_token = ""
    THEN Returned(Text("AuthRequired", ""), <<>>)
    ELSE LET bearer == config.access_token
             resp == SleepResponse(bearer, transport, feed)
             sent == <<SleepRequest(bearer, resp)>>
         IN  IF resp.status # "ok"
             THEN Returned(Text("FetchError", HttpErrorText(resp.status)),
                           sent)
             ELSE IF NoData(resp.body)
             THEN Returned(Text("NoData", ""), sent)
             ELSE IF week
             THEN LET sleep_records == ListSort(resp.body["data"], TRUE)
                  IN  Returned([Text("Week", "")
                                   EXCEPT !.lines = [i \in 1..Len(sleep_records) |->
                                                        WeekLine(sleep_records[i])],
                                          !.avg = AverageLine(sleep_records)],
                               sent)
             ELSE LET sleep == resp.body["data"][1]
                  IN  Returned([Text("OneNight", "")
                                   EXCEPT !.lines =
                                      <<[date |-> date,
                                         score |-> IF "score" \in DOMAIN sleep
                                                   THEN ScoreText(sleep["score"])
                                                   ELSE "N/A"]>>],
                               sent)

get_sleep_last_night(transport) ==
    FastSleep("yesterday", FALSE, transport)

get_sleep_last_week(transport) ==
    FastSleep("", TRUE, transport)

get_sleep_by_date(date, transport) ==
    FastSleep(date, FALSE, transport)

Key_access_token == <<"a", "c", "c", "e", "s", "s", "_", "t", "o", "k", "e", "n">>

Key_expires_in == <<"e", "x", "p", "i", "r", "e", "s", "_", "i", "n">>

\* token[:20]
First20(token) == SubSeq(token, 1, IF Len(token) < 20 THEN Len(token) ELSE 20)

\* `resp` is the provider's answer, should the tool come to exchange a code
parse_redirect_url(url, resp) ==
    LET fragment == Split(url, "#")[2]
        found == parse_qsl(fragment, FALSE)
        parsed == urlparse(url)
        params == parse_qsl(parsed.query, FALSE)
    IN  IF Find(url, "#") > 0 /\ HasName(found, Key_access_token)
        THEN Returned(
                Text("TokenFound",
                     [token |-> First20(FirstValue(found, Key_access_token)),
                      expires_in |-> IF HasName(found, Key_expires_in)
                                     THEN FirstValue(found, Key_expires_in)
                                     ELSE <<"u", "n", "k", "n", "o", "w", "n">>]),
                <<>>)
        ELSE IF parsed.error # None
        THEN Returned(Text("ParseError", parsed.error[1]), <<>>)
        ELSE IF HasName(params, Value_code)
        THEN exchange_code(FirstValue(params, Value_code), resp)
        ELSE Returned(Text("NothingFound", ""), <<>>)

-----------------------------------------------------------------------------
(* The state after construction *)

\* what os.getenv gives for the two credentials: unset, empty or a value
Envs ==
    {[client_id |-> i, client_secret |-> s, redirect_uri |-> None] :
        i \in {None, Some(<<>>), Some(<<"a", "b", "c">>)},
        s \in {None, Some(<<>>), Some(<<"s", "e", "c">>)}}

\* both credentials set, no redirect URI
ConfiguredEnv ==
    [client_id |-> Some(<<"a", "b", "c">>),
     client_secret |-> Some(<<"s", "e", "c">>), redirect_uri |-> None]

\* nothing set: what os.getenv finds where only oura_set_token is used
BareEnv == [client_id |-> None, client_secret |-> None, redirect_uri |-> None]

\* both credentials set, a token the API accepts
ConfiguredSession ==
    [client_id |-> <<"a", "b", "c">>, client_secret |-> <<"s", "e", "c">>,
     redirect_uri |-> DefaultRedirectUri, access_token |-> "tokA"]

\* the upstream holds one record
ConfiguredFeed == [data |-> <<[day |-> 1, score |-> 20]>>]

\* the session configuration: client_id and client_secret are required
\* strings, access_token defaults to ""; the credentials, which the
\* authorization tools read, vary with the token set, and the token, which
\* the sleep tools read, varies with the credentials set
Configs ==
    {[ConfiguredSession EXCEPT !.client_id = i, !.client_secret = s] :
        i \in {<<>>, <<"a", "b", "c">>}, s \in {<<>>, <<"s", "e", "c">>}}
    \cup {[ConfiguredSession EXCEPT !.access_token = t] : t \in Tokens}

\* OuraMCPServer.__init__
Started == [Text("", "") EXCEPT !.kind = "none"]

\* the two programs share no state, and no tool reads more than one of the
\* environment of OuraMCPServer, the session of the FastMCP variant and, with
\* a token the API accepts, the upstream's records: one of the three varies.
\* The environment varies with the session and the upstream as configured;
\* the session and the upstream vary with nothing set in the environment,
\* where OuraMCPServer gets its token from oura_set_token
Init ==
    /\ \/ env \in Envs /\ config = ConfiguredSession /\ feed = ConfiguredFeed
       \/ env = BareEnv /\ config \in Configs /\ feed = ConfiguredFeed
       \/ env = BareEnv /\ config = ConfiguredSession /\ feed \in ServerFeeds
    /\ auth = None
    /\ client = None
    /\ call = Request(MCP, "__init__", <<>>)
    /\ result = Started
    /\ http = <<>>
    /\ tasks = EmptyBag
    /\ log = <<>>

-----------------------------------------------------------------------------
(* Tool calls *)

AuthArguments == {<<>>} \cup {[scope |-> s] : s \in Scopes}

ExchangeArguments == {<<>>} \cup {[code |-> c] : c \in Codes}

SetTokenArguments == {<<>>} \cup {[access_token |-> t] : t \in Tokens}

UnknownNames == {"get_sleep_last_night", "oura_refresh"}

\* the environment's part in a call that reads none of it
Io(nonce, token, transport) ==
    [nonce |-> nonce, token |-> token, transport |-> transport]

Quiet == Io(<<"n", "1">>, [status |-> "network_error", body |-> <<>>], "ok")

Apply(o) ==
    /\ auth' = o.auth
    /\ client' = o.client
    /\ result' = o.result
    /\ http' = o.http

\* an invocation of a tool of OuraMCPServer: `pc` is the place its handler
\* has reached, `held` is self.client as a sleep tool's check saw it, `used`
\* the client whose get_sleep_data it called
Task(tool, arguments) ==
    [tool |-> tool, arguments |-> arguments, pc |-> "new",
     held |-> None, used |-> None]

\* the invocation once its handler awaits the answer to its request; a
\* sleep tool has read self.client and built its Authorization header
InFlight(name, arguments) ==
    [Task(name, arguments)
        EXCEPT !.pc = "awaiting",
               !.held = IF name \in McpSleepTools THEN client ELSE None,
               !.used = IF name \in McpSleepTools THEN client ELSE None]

\* a call begins: its handler runs until it returns, or until it awaits an
\* answer, and then nothing of the server has changed yet; at most
\* MaxAwaiting handlers await at one time
Begin(name, arguments, io) ==
    IF Awaits(name, arguments)
    THEN /\ BagCardinality(tasks) < MaxAwaiting
         /\ tasks' = tasks (+) SetToBag({InFlight(name, arguments)})
         /\ UNCHANGED <<auth, client, call, result, http>>
    ELSE /\ call' = Request(MCP, name, arguments)
         /\ Apply(handle_call_tool(name, arguments, io))
         /\ UNCHANGED tasks

\* one of the handlers that await is resumed with its answer and returns
Resumed(task, o) ==
    /\ call' = Request(MCP, task.tool, task.arguments)
    /\ Apply(o)
    /\ tasks' = tasks (-) SetToBag({task})

CallAuth ==
    \E arguments \in AuthArguments, nonce \in Nonces :
        /\ call' = Request(MCP, "oura_auth", arguments)
        /\ Apply(handle_call_tool("oura_auth", arguments,
                                  [Quiet EXCEPT !.nonce = nonce]))
        /\ UNCHANGED <<tasks, log, env, config, feed>>

\* oura_exchange_code up to its await of the provider's answer, or to its
\* return where it does not come to ask
CallExchangeCode ==
    \E arguments \in ExchangeArguments :
        /\ Begin("oura_exchange_code", arguments, Quiet)
        /\ UNCHANGED <<log, env, config, feed>>

\* oura_exchange_code from the provider's answer to its return
ExchangeCodeReturns ==
    \E task \in BagToSet(tasks), resp \in TokenResponses :
        /\ task.tool = "oura_exchange_code"
        /\ Resumed(task, ExchangeReport(task.arguments, resp))
        /\ UNCHANGED <<log, env, config, feed>>

CallSetToken ==
    \E arguments \in SetTokenArguments :
        /\ call' = Request(MCP, "oura_set_token", arguments)
        /\ Apply(handle_call_tool("oura_set_token", arguments, Quiet))
        /\ UNCHANGED <<tasks, log, env, config, feed>>

\* oura_last_night_sleep up to its await of the API's answer, or to its
\* return where there is no client to ask with
CallLastNightSleep ==
    /\ Begin("oura_last_night_sleep", <<>>, Quiet)
    /\ UNCHANGED <<log, env, config, feed>>

\* oura_last_night_sleep from the API's answer to its return
LastNightSleepReturns ==
    \E task \in BagToSet(tasks), transport \in Transports :
        /\ task.tool = "oura_last_night_sleep"
        /\ Resumed(task, LastNightReport(task.used, transport))
        /\ UNCHANGED <<log, env, config, feed>>

\* oura_week_sleep up to its await of the API's answer, or to its return
CallWeekSleep ==
    /\ Begin("oura_week_sleep", <<>>, Quiet)
    /\ UNCHANGED <<log, env, config, feed>>

\* oura_week_sleep from the API's answer to its return
WeekSleepReturns ==
    \E task \in BagToSet(tasks), transport \in Transports :
        /\ task.tool = "oura_week_sleep"
        /\ Resumed(task, WeekReport(task.used, transport))
        /\ UNCHANGED <<log, env, config, feed>>

CallUnknown ==
    \E name \in UnknownNames, arguments \in SetTokenArguments :
        /\ call' = Request(MCP, name, arguments)
        /\ Apply(handle_call_tool(name, arguments, Quiet))
        /\ UNCHANGED <<tasks, log, env, config, feed>>

\* the process ends, with the handlers that await in it, and a new one
\* constructs its OuraMCPServer
Restart ==
    /\ auth' = None
    /\ client' = None
    /\ call' = Request(MCP, "__init__", <<>>)
    /\ result' = Started
    /\ http' = <<>>
    /\ tasks' = EmptyBag
    /\ UNCHANGED <<log, env, config, feed>>

TEST == "test_server"

\* test_server.py: the test puts a mock in the place of a missing client,
\* between two calls it awaits to their return
InstallMockClient ==
    /\ tasks = EmptyBag
    /\ client' = IF client = None THEN Some(MockClient) ELSE client
    /\ call' = Request(TEST, "client", <<>>)
    /\ result' = Started
    /\ http' = <<>>
    /\ UNCHANGED <<tasks, log, env, config, feed, auth>>

Return(o) ==
    /\ result' = o.result
    /\ http' = o.http
    /\ config' = o.config

FastGetAuthUrl ==
    \E scope \in Scopes, nonce \in Nonces :
        /\ call' = Request(FAST, "get_auth_url", [scope |-> scope])
        /\ Return(get_auth_url(scope, nonce))
        /\ UNCHANGED <<tasks, log, env, feed, auth, client>>

FastExchangeCode ==
    \E code \in Codes, resp \in TokenResponses :
        /\ call' = Request(FAST, "exchange_code", [code |-> code])
        /\ Return(exchange_code(code, resp))
        /\ UNCHANGED <<tasks, log, env, feed, auth, client>>

\* redirect URLs: one with a code in its query, one with a token in its
\* fragment, one with neither
RedirectUrls ==
    {<<"h", "t", "t", "p", ":", "/", "/", "l", "o", "c", "a", "l", "h", "o", "s", "t", ":", "8", "0", "8", "0", "/", "c", "a", "l", "l", "b", "a", "c", "k">> \o
        <<"?", "c", "o", "d", "e", "=", "c", "1", "&", "s", "t", "a", "t", "e", "=", "n", "1">>,
     <<"h", "t", "t", "p", ":", "/", "/", "l", "o", "c", "a", "l", "h", "o", "s", "t", ":", "8", "0", "8", "0", "/", "c", "a", "l", "l", "b", "a", "c", "k">> \o
        <<"#", "a", "c", "c", "e", "s", "s", "_", "t", "o", "k", "e", "n", "=", "t", "o", "k", "A", "&", "e", "x", "p", "i", "r", "e", "s", "_", "i", "n", "=", "8", "6", "4", "0", "0">>,
     <<"h", "t", "t", "p", ":", "/", "/", "l", "o", "c", "a", "l", "h", "o", "s", "t", ":", "8", "0", "8", "0", "/", "c", "a", "l", "l", "b", "a", "c", "k">>}

FastParseRedirectUrl ==
    \E redirect \in RedirectUrls, answer \in RedirectResponses :
        /\ call' = Request(FAST, "parse_redirect_url", [url |-> redirect])
        /\ Return(parse_redirect_url(redirect, answer))
        /\ UNCHANGED <<tasks, log, env, feed, auth, client>>

FastSleepLastNight ==
    \E transport \in Transports :
        /\ call' = Request(FAST, "get_sleep_last_night", <<>>)
        /\ Return(get_sleep_last_night(transport))
        /\ UNCHANGED <<tasks, log, env, feed, auth, client>>

FastSleepLastWeek ==
    \E transport \in Transports :
        /\ call' = Request(FAST, "get_sleep_last_week", <<>>)
        /\ Return(get_sleep_last_week(transport))
        /\ UNCHANGED <<tasks, log, env, feed, auth, client>>

FastSleepByDate ==
    \E date \in {"2025-10-01"}, transport \in Transports :
        /\ call' = Request(FAST, "get_sleep_by_date", [date |-> date])
        /\ Return(get_sleep_by_date(date, transport))
        /\ UNCHANGED <<tasks, log, env, feed, auth, client>>

Next ==
    \/ CallAuth
    \/ CallExchangeCode
    \/ ExchangeCodeReturns
    \/ CallSetToken
    \/ CallLastNightSleep
    \/ LastNightSleepReturns
    \/ CallWeekSleep
    \/ WeekSleepReturns
    \/ CallUnknown
    \/ Restart
    \/ InstallMockClient
    \/ FastGetAuthUrl
    \/ FastExchangeCode
    \/ FastParseRedirectUrl
    \/ FastSleepLastNight
    \/ FastSleepLastWeek
    \/ FastSleepByDate

Spec == Init /\ [][Next]_vars

-----------------------------------------------------------------------------
(* The week's report over every upstream answer: the server has been given a
   valid token (oura_set_token after construction), the session is configured
   with one, the upstream holds any list of up to MaxRecords records and
   answers every request with it *)

InitWeek ==
    /\ env = ConfiguredEnv
    /\ config = ConfiguredSession
    /\ feed \in WeekFeeds
    /\ auth = None
    /\ client = Some(OuraClient("tokA"))
    /\ call = Request(MCP, "oura_set_token", [access_token |-> "tokA"])
    /\ result = Text("TokenSet", "")
    /\ http = <<>>
    /\ tasks = EmptyBag
    /\ log = <<>>

\* oura_week_sleep from the API's answer to its return, the request
\* answered 2xx
WeekSleepAnswered ==
    \E task \in BagToSet(tasks) :
        /\ task.tool = "oura_week_sleep"
        /\ Resumed(task, WeekReport(task.used, "ok"))
        /\ UNCHANGED <<log, env, config, feed>>

\* get_sleep_last_week with the request answered 2xx
FastSleepLastWeekAnswered ==
    /\ call' = Request(FAST, "get_sleep_last_week", <<>>)
    /\ Return(get_sleep_last_week("ok"))
    /\ UNCHANGED <<tasks, log, env, feed, auth, client>>

NextWeek ==
    \/ CallWeekSleep
    \/ WeekSleepAnswered
    \/ FastSleepLastWeekAnswered

SpecWeek == InitWeek /\ [][NextWeek]_vars

-----------------------------------------------------------------------------
(* The authorization URL over every scope: the credentials are configured,
   with texts that hold reserved characters, and the caller asks for the URL
   with any scope of up to MaxText characters *)

\* a letter, the space and the characters that delimit a query string
UrlAlphabet == {"a", " ", "&", "=", "%", "+"}

UrlTexts == UNION {[1..k -> UrlAlphabet] : k \in 0..MaxText}

UrlClientIds == {<<"a", "&", "b", "=", "%", "+", " ", "c">>}

UrlRedirectUris ==
    {None,
     Some(<<"h", "t", "t", "p", ":", "/", "/", "a", " ", "b", "/", "?", "c", "=", "d", "&", "e", "#", "f">>)}

InitUrl ==
    /\ \E i \in UrlClientIds, r \in UrlRedirectUris :
          /\ env = [client_id |-> Some(i), client_secret |-> Some(<<"s", "e", "c">>),
                    redirect_uri |-> r]
          /\ config = [client_id |-> i, client_secret |-> <<"s", "e", "c">>,
                       redirect_uri |-> IF r = None THEN <<>> ELSE r[1],
                       access_token |-> ""]
    /\ feed = <<>>
    /\ auth = None
    /\ client = None
    /\ call = Request(MCP, "__init__", <<>>)
    /\ result = Started
    /\ http = <<>>
    /\ tasks = EmptyBag
    /\ log = <<>>

\* oura_auth with any scope
CallAuthScope ==
    \E text \in UrlTexts :
        /\ call' = Request(MCP, "oura_auth", [scope |-> text])
        /\ Apply(handle_call_tool("oura_auth", [scope |-> text], Quiet))
        /\ UNCHANGED <<tasks, log, env, config, feed>>

\* get_auth_url with any scope
FastGetAuthUrlScope ==
    \E text \in UrlTexts :
        /\ call' = Request(FAST, "get_auth_url", [scope |-> text])
        /\ Return(get_auth_url(text, Quiet.nonce))
        /\ UNCHANGED <<tasks, log, env, feed, auth, client>>

NextUrl ==
    \/ CallAuthScope
    \/ FastGetAuthUrlScope

SpecUrl == InitUrl /\ [][NextUrl]_vars

-----------------------------------------------------------------------------
(* parse_redirect_url over redirect URLs: a URL is a base, then possibly "?"
   and a query, then possibly "#" and a fragment.  Each query and fragment
   comes with what a reader of the URL finds in it: `value`, the first value
   of the parameter looked for (None without the parameter), and `filled`,
   its first value that is not empty in the text up to a further "#" *)

RedirectBases ==
    {[text |-> <<"h", "t", "t", "p", ":", "/", "/", "l", "o", "c", "a", "l", "h", "o", "s", "t", ":", "8", "0", "8", "0", "/", "c", "a", "l", "l", "b", "a", "c", "k">>,
      valid |-> TRUE],
     [text |-> <<"h", "t", "t", "p", ":", "/", "/", "[", ":", ":", "1", "]", ":", "8", "0", "8", "0", "/", "c", "a", "l", "l", "b", "a", "c", "k">>,
      valid |-> TRUE],
     [text |-> <<"c", "a", "l", "l", "b", "a", "c", "k">>, valid |-> TRUE],
     [text |-> <<"h", "t", "t", "p", ":", "/", "/", "[", "l", "o", "c", "a", "l", "h", "o", "s", "t", "/", "c", "a", "l", "l", "b", "a", "c", "k">>,
      valid |-> FALSE]}

Part(text, value, filled) == [text |-> text, value |-> value, filled |-> filled]

\* the queries, read for "code"
RedirectQueries ==
    {Part(<<"c", "o", "d", "e", "=", "c", "1">>, Some(<<"c", "1">>), Some(<<"c", "1">>)),
     Part(<<"c", "o", "d", "e", "=", "c", "1", "&", "c", "o", "d", "e", "=", "c", "2">>,
          Some(<<"c", "1">>), Some(<<"c", "1">>)),
     Part(<<"c", "o", "d", "e", "=", "&", "c", "o", "d", "e", "=", "c", "2">>,
          Some(<<>>), Some(<<"c", "2">>)),
     Part(<<"c", "o", "d", "e", "=">>, Some(<<>>), None),
     Part(<<"s", "t", "a", "t", "e", "=", "n", "1">>, None, None),
     Part(<<"s", "t", "a", "t", "e", "=", "n", "1", "&", "c", "o", "d", "e", "=", "c", "1">>,
          Some(<<"c", "1">>), Some(<<"c", "1">>))}

\* the fragments, read for "access_token"; the fifth and the sixth hold a
\* further "#"
RedirectFragments ==
    {Part(<<"a", "c", "c", "e", "s", "s", "_", "t", "o", "k", "e", "n", "=", "t", "o", "k">>,
          Some(<<"t", "o", "k">>), Some(<<"t", "o", "k">>)),
     Part(<<"a", "c", "c", "e", "s", "s", "_", "t", "o", "k", "e", "n", "=", "t", "o", "k", "&", "e", "x", "p", "i", "r", "e", "s", "_", "i", "n", "=", "8", "6", "4", "0", "0">>,
          Some(<<"t", "o", "k">>), Some(<<"t", "o", "k">>)),
     Part(<<"a", "c", "c", "e", "s", "s", "_", "t", "o", "k", "e", "n", "=">>,
          Some(<<>>), None),
     Part(<<"s", "t", "a", "t", "e", "=", "n", "1">>, None, None),
     Part(<<"s", "t", "a", "t", "e", "=", "n", "1", "#", "a", "c", "c", "e", "s", "s", "_", "t", "o", "k", "e", "n", "=", "t", "o", "k">>,
          None, None),
     Part(<<"a", "c", "c", "e", "s", "s", "_", "t", "o", "k", "e", "n", "=", "#", "x">>,
          Some(<<"#", "x">>), None),
     Part(<<"c", "o", "d", "e", "=", "c", "1">>, None, None)}

\* the URL of a base, a query or None, a fragment or None
MakeUrl(b, q, f) ==
    b.text \o (IF q = None THEN <<>> ELSE <<"?">> \o q[1].text)
           \o (IF f = None THEN <<>> ELSE <<"#">> \o f[1].text)

Optional(S) == {None} \cup {Some(x) : x \in S}

InitRedirect ==
    /\ env = [client_id |-> None, client_secret |-> None, redirect_uri |-> None]
    /\ config \in {[client_id |-> i, client_secret |-> <<"s", "e", "c">>,
                     redirect_uri |-> DefaultRedirectUri, access_token |-> ""] :
                        i \in {<<>>, <<"a", "b", "c">>}}
    /\ feed = <<>>
    /\ auth = None
    /\ client = None
    /\ call = Request(MCP, "__init__", <<>>)
    /\ result = Started
    /\ http = <<>>
    /\ tasks = EmptyBag
    /\ log = <<>>

\* parse_redirect_url with any of the URLs
FastParseAnyRedirectUrl ==
    \E b \in RedirectBases, q \in Optional(RedirectQueries),
       f \in Optional(RedirectFragments), resp \in RedirectResponses :
        /\ call' = Request(FAST, "parse_redirect_url", [url |-> MakeUrl(b, q, f)])
        /\ Return(parse_redirect_url(MakeUrl(b, q, f), resp))
        /\ UNCHANGED <<tasks, log, env, feed, auth, client>>

NextRedirect == FastParseAnyRedirectUrl

SpecRedirect == InitRedirect /\ [][NextRedirect]_vars

-----------------------------------------------------------------------------
(* Concurrent invocations on one OuraMCPServer.  The handlers are coroutines
   of one event loop: a handler runs alone until it awaits an HTTP response,
   and any other handler may run before it is resumed.  oura_set_token
   awaits nothing; oura_exchange_code awaits the provider's answer and
   assigns self.client after it; a sleep tool checks self.client, calls
   self.client.get_sleep_data, which builds the Authorization header, and
   awaits the API's answer.  A task is at "new" before its handler starts,
   at "checked" between a sleep tool's check and its call, at "awaiting"
   while it awaits an answer and at "done" after it returned *)

TaskIds == 1..MaxTasks

Invocations ==
    {Task("oura_set_token", [access_token |-> t]) : t \in {"tokA", "tokB"}}
    \cup {Task("oura_exchange_code", [code |-> c]) : c \in Codes}
    \cup {Task(tool, <<>>) : tool \in {"oura_last_night_sleep", "oura_week_sleep"}}

\* the provider's answers to a concurrent exchange: a token, a token without
\* expires_in, a refusal
ConcurrentTokenResponses ==
    {[status |-> "ok", body |-> TokenBody(TokenFields, "tokA")],
     [status |-> "ok", body |-> TokenBody({"access_token"}, "tokA")],
     [status |-> "http_error", body |-> <<>>]}

\* a completed call, as the log keeps it
Completed(request, o) == [call |-> request, result |-> o.result, http |-> o.http]

\* self.auth as oura_auth constructs it in this environment
ConcurrentAuth ==
    OuraAuth(ConfiguredEnv.client_id, ConfiguredEnv.client_secret,
             Some(DefaultRedirectUri))

\* oura_auth, called without arguments, as the log keeps it
DoneAuth ==
    Completed(Request(MCP, "oura_auth", <<>>),
              [result |-> [Text("AuthUrl", "")
                              EXCEPT !.url = Some(get_authorization_url(
                                  ConcurrentAuth, Quiet.nonce,
                                  <<"p", "e", "r", "s", "o", "n", "a", "l", " ", "d", "a", "i", "l", "y">>))],
               http |-> <<>>])

\* oura_set_token with the token the API rejects, as the log keeps it
DoneSetToken ==
    Completed(Request(MCP, "oura_set_token", [access_token |-> "tokB"]),
              [result |-> Text("TokenSet", ""), http |-> <<>>])

\* the calls that completed before the concurrent ones begin: none, oura_auth,
\* oura_set_token, or both in either order
CallsBefore ==
    {<<>>, <<DoneAuth>>, <<DoneSetToken>>,
     <<DoneAuth, DoneSetToken>>, <<DoneSetToken, DoneAuth>>}

\* whether the call is among the completed ones
Among(done, e) == \E i \in DOMAIN done : done[i] = e

\* the server has been constructed and the calls before have completed, one
\* after the other
InitConcurrent ==
    /\ env = ConfiguredEnv
    /\ config = [client_id |-> <<"a", "b", "c">>, client_secret |-> <<"s", "e", "c">>,
                 redirect_uri |-> DefaultRedirectUri, access_token |-> ""]
    /\ feed = ConfiguredFeed
    /\ log \in CallsBefore
    /\ auth = IF Among(log, DoneAuth) THEN Some(ConcurrentAuth) ELSE None
    /\ client = IF Among(log, DoneSetToken) THEN Some(OuraClient("tokB")) ELSE None
    /\ call = IF log = <<>> THEN Request(MCP, "__init__", <<>>)
              ELSE log[Len(log)].call
    /\ result = IF log = <<>> THEN Started ELSE log[Len(log)].result
    /\ http = <<>>
    /\ tasks \in [TaskIds -> Invocations]

\* mutant: a sleep tool yields between its check and its call
Yielded_AfterCheck(pc) == TRUE

\* whether a handler at this place has yielded to the event loop: it has
\* not between the check of self.client and the call of get_sleep_data
Yielded(pc) == pc # "checked"

\* the event loop may run task t: every other handler has yielded
Scheduled(t) == \A u \in TaskIds \ {t} : Yielded(tasks[u].pc)

\* the handler of task t returns: its outcome becomes the state of the
\* server and the call is logged
Complete(t, o) ==
    /\ call' = Request(MCP, tasks[t].tool, tasks[t].arguments)
    /\ Apply(o)
    /\ log' = Append(log, Completed(call', o))
    /\ tasks' = [tasks EXCEPT ![t].pc = "done"]

\* oura_set_token runs from its start to its return
SetTokenRuns(t) ==
    /\ tasks[t].pc = "new"
    /\ tasks[t].tool = "oura_set_token"
    /\ Scheduled(t)
    /\ Complete(t, handle_call_tool(tasks[t].tool, tasks[t].arguments, Quiet))
    /\ UNCHANGED <<env, config, feed>>

\* oura_exchange_code runs to its await of the provider's answer, or to its
\* return where auth is missing
ExchangeStarts(t) ==
    /\ tasks[t].pc = "new"
    /\ tasks[t].tool = "oura_exchange_code"
    /\ Scheduled(t)
    /\ IF Awaits(tasks[t].tool, tasks[t].arguments)
       THEN /\ tasks' = [tasks EXCEPT ![t].pc = "awaiting"]
            /\ UNCHANGED <<auth, client, call, result, http, log>>
       ELSE Complete(t, handle_call_tool(tasks[t].tool, tasks[t].arguments, Quiet))
    /\ UNCHANGED <<env, config, feed>>

\* oura_exchange_code is resumed with the provider's answer
ExchangeResumes(t) ==
    /\ tasks[t].pc = "awaiting"
    /\ tasks[t].tool = "oura_exchange_code"
    /\ Scheduled(t)
    /\ \E answer \in ConcurrentTokenResponses :
          Complete(t, ExchangeReport(tasks[t].arguments, answer))
    /\ UNCHANGED <<env, config, feed>>

\* a sleep tool checks self.client
SleepChecks(t) ==
    /\ tasks[t].pc = "new"
    /\ tasks[t].tool \in {"oura_last_night_sleep", "oura_week_sleep"}
    /\ Scheduled(t)
    /\ IF client = None
       THEN Complete(t, handle_call_tool(tasks[t].tool, tasks[t].arguments, Quiet))
       ELSE /\ tasks' = [tasks EXCEPT ![t].pc = "checked", ![t].held = client]
            /\ UNCHANGED <<auth, client, call, result, http, log>>
    /\ UNCHANGED <<env, config, feed>>

\* a sleep tool calls self.client.get_sleep_data, which builds the header
\* and sends the request
SleepSends(t) ==
    /\ tasks[t].pc = "checked"
    /\ Scheduled(t)
    /\ tasks' = [tasks EXCEPT ![t].pc = "awaiting", ![t].used = client]
    /\ UNCHANGED <<env, config, feed, auth, client, call, result, http, log>>

\* a sleep tool is resumed with the API's answer
SleepResumes(t) ==
    /\ tasks[t].pc = "awaiting"
    /\ tasks[t].tool \in {"oura_last_night_sleep", "oura_week_sleep"}
    /\ Scheduled(t)
    /\ \E transport \in Transports :
          Complete(t, IF tasks[t].tool = "oura_last_night_sleep"
                      THEN LastNightReport(tasks[t].used, transport)
                      ELSE WeekReport(tasks[t].used, transport))
    /\ UNCHANGED <<env, config, feed>>

NextConcurrent ==
    \E t \in TaskIds :
        \/ SetTokenRuns(t)
        \/ ExchangeStarts(t)
        \/ ExchangeResumes(t)
        \/ SleepChecks(t)
        \/ SleepSends(t)
        \/ SleepResumes(t)

SpecConcurrent == InitConcurrent /\ [][NextConcurrent]_vars

-----------------------------------------------------------------------------
(* Properties *)

FastSleepTools == {"get_sleep_last_night", "get_sleep_last_week", "get_sleep_by_date"}

\* the last call was a sleep tool called while no token existed (no sleep
\* tool changes the client or the configuration)
SleepCallWithoutToken ==
    \/ call.server = MCP /\ call.tool \in McpSleepTools /\ client = None
    \/ call.server = FAST /\ call.tool \in FastSleepTools /\ config.access_token = ""

\* C1: a sleep tool called while no token exists returns the
\* authentication-required text, raises nothing and sends no request
C1_NoTokenAuthRequired ==
    SleepCallWithoutToken =>
        /\ result.kind = "text"
        /\ result.msg = "AuthRequired"
        /\ http = <<>>

C1_Witness ==
    /\ call.server = MCP
    /\ call.tool = "oura_week_sleep"
    /\ client = None
    /\ auth # None
    /\ result.msg = "AuthRequired"

\* C2: every call of a recognized OuraMCPServer tool, whatever its argument
\* record, returns a text and lets no exception out of the handler
C2_HandlersAlwaysReturnText ==
    (call.server = MCP /\ call.tool \in ToolNames) => result.kind = "text"

\* the last call asked the provider for a token and got a 2xx answer
\* without the access_token field
AnswerLacksAccessToken(h) ==
    /\ h # <<>>
    /\ h[1].endpoint = "token"
    /\ h[1].resp.status = "ok"
    /\ "access_token" \notin DOMAIN h[1].resp.body

\* C3: a 2xx token answer without access_token gives an error text, not an
\* exception, and the client is the one held before the call
C3_MissingAccessTokenIsReported ==
    [][AnswerLacksAccessToken(http') =>
          /\ result'.kind = "text"
          /\ result'.msg = "ExchangeError"
          /\ client' = client]_vars

C3_Witness ==
    /\ call.server = MCP
    /\ call.tool = "oura_exchange_code"
    /\ AnswerLacksAccessToken(http)
    /\ "expires_in" \in DOMAIN http[1].resp.body
    /\ result.msg = "ExchangeError"
    /\ client = Some(OuraClient("tokB"))

\* C4: a client exists only with a non-empty access token, and no sleep
\* request carries an empty bearer token
C4_ClientHoldsNonEmptyToken ==
    /\ client # None => client[1].access_token # ""
    /\ \A i \in DOMAIN http :
          (call.server = MCP /\ http[i].endpoint = "sleep") => http[i].bearer # ""

\* C5: oura_set_token reports success only after one authenticated request
\* has shown the token to be accepted upstream
C5_SetTokenValidates ==
    (call.server = MCP /\ call.tool = "oura_set_token" /\ result.msg = "TokenSet") =>
        /\ Len(http) = 1
        /\ client[1].access_token \in ValidTokens

\* client_id or client_secret is unset or empty
NoCredentials(id, secret) ==
    id \in {None, Some(<<>>)} \/ secret \in {None, Some(<<>>)}

\* C6: with client_id or client_secret missing, the authorization-URL tool
\* returns the configuration error without a URL, auth stays uninitialized
\* and oura_exchange_code goes on answering that oura_auth must be called
C6_MissingCredentials ==
    /\ NoCredentials(env.client_id, env.client_secret) =>
          /\ auth = None
          /\ (call.server = MCP /\ call.tool = "oura_auth") =>
                /\ result.kind = "text"
                /\ result.msg = "ConfigurationError"
                /\ result.url = None
          /\ (call.server = MCP /\ call.tool = "oura_exchange_code"
                /\ "code" \in DOMAIN call.arguments) =>
                /\ result.kind = "text"
                /\ result.msg = "MustCallAuthFirst"
                /\ http = <<>>
    /\ (NoCredentials(Some(config.client_id), Some(config.client_secret))
          /\ call.server = FAST /\ call.tool = "get_auth_url") =>
          /\ result.kind = "text"
          /\ result.msg = "ConfigurationError"
          /\ result.url = None

C6_Witness ==
    /\ env.client_id = Some(<<"a", "b", "c">>)
    /\ env.client_secret = None
    /\ call.server = MCP
    /\ call.tool = "oura_auth"
    /\ result.msg = "ConfigurationError"
    /\ client # None

\* C7: a call of a name that is no registered tool is rejected with the
\* unknown-tool error: no request is sent, auth and client stay as they were
C7_UnknownToolRejected ==
    [][(call'.server = MCP /\ call'.tool \notin ToolNames \cup {"__init__"}) =>
          /\ result'.kind = "raise"
          /\ result'.msg = "ValueError"
          /\ result'.detail = "Unknown tool"
          /\ http' = <<>>
          /\ auth' = auth
          /\ client' = client]_vars

C7_Witness ==
    /\ call.server = MCP
    /\ call.tool = "get_sleep_last_night"
    /\ result.kind = "raise"
    /\ result.msg = "ValueError"
    /\ auth # None
    /\ client # None

\* C8: a token accepted before a restart is held again by the server
\* constructed after it
C8_TokenSurvivesRestart ==
    [][(call'.tool = "__init__" /\ client # None) => client' = client]_vars

\* the records the upstream answered with, in its order
Upstream == feed["data"]

\* the day a record is ordered by; a record without one comes last
DayOf(record) == IF "day" \in DOMAIN record THEN record["day"] ELSE 0

\* the place of upstream record i in a list ordered by day, newest first,
\* records of the same day in upstream order: behind every record of a later
\* day and every earlier record of the same day
PlaceOf(i) ==
    1 + Cardinality({j \in DOMAIN Upstream : DayOf(Upstream[j]) > DayOf(Upstream[i])})
      + Cardinality({j \in 1..(i - 1) : DayOf(Upstream[j]) = DayOf(Upstream[i])})

\* C9: the week's report lists exactly the upstream records, in descending
\* order of day, records of the same day in their upstream order
C9_WeekSortedStable ==
    result.msg = "Week" =>
        /\ Len(result.lines) = Len(Upstream)
        /\ \A i \in DOMAIN Upstream : result.lines[PlaceOf(i)] = WeekLine(Upstream[i])

C9_Witness ==
    /\ call.server = MCP
    /\ result.msg = "Week"
    /\ Upstream = <<[day |-> 1, score |-> 10], [day |-> 2, score |-> 20],
                    [day |-> 2, score |-> 30]>>
    /\ result.lines = <<[date |-> "2025-10-02", score |-> "20"],
                        [date |-> "2025-10-02", score |-> "30"],
                        [date |-> "2025-10-01", score |-> "10"]>>

\* the upstream records whose score is neither missing nor null
Scored == {i \in DOMAIN Upstream :
              "score" \in DOMAIN Upstream[i] /\ Upstream[i]["score"] # Null}

RECURSIVE TotalScore(_)
TotalScore(S) ==
    IF S = {} THEN 0
    ELSE LET i == CHOOSE j \in S : TRUE
         IN  Upstream[i]["score"] + TotalScore(S \ {i})

\* a number of tenths written with one decimal place
TenthsText(t) == Str(t \div 10) \o "." \o Str(t % 10)

\* C10: the average line of the week's report shows the mean of the scores
\* that are neither missing nor null (a score of 0 counts) at the nearest
\* tenth, and there is no average line when no record has such a score
C10_AverageOfScores ==
    result.msg = "Week" =>
        LET n == Cardinality(Scored)
            total == TotalScore(Scored)
        IN  IF n = 0 THEN result.avg = None
            ELSE \E t \in {(10 * total) \div n, (10 * total) \div n + 1} :
                    /\ result.avg = Some(TenthsText(t))
                    /\ 2 * (10 * total - t * n) <= n
                    /\ 2 * (t * n - 10 * total) <= n

C10_Witness ==
    /\ call.server = FAST
    /\ result.msg = "Week"
    /\ Upstream = <<[day |-> 1, score |-> 10], [day |-> 1, score |-> 20],
                    [day |-> 2, score |-> 30]>>
    /\ result.avg = Some("20.0")

\* C11: when the upstream answers the past-week request with no data list or
\* an empty one, the week tool of either program returns the "no data"
\* message, with no line per record and no average line
C11_EmptyWeekIsNoData ==
    (/\ call.tool \in {"oura_week_sleep", "get_sleep_last_week"}
     /\ Len(http) = 1
     /\ http[1].resp.status = "ok"
     /\ ("data" \notin DOMAIN feed \/ Len(feed["data"]) = 0))
        => /\ result.kind = "text"
           /\ result.msg = "NoData"
           /\ result.lines = <<>>
           /\ result.avg = None

C11_Witness ==
    /\ call = Request(FAST, "get_sleep_last_week", <<>>)
    /\ "data" \in DOMAIN feed
    /\ Len(feed["data"]) = 0
    /\ Len(http) = 1
    /\ http[1].resp.status = "ok"
    /\ result.msg = "NoData"

\* the redirect URI in force: the configured one, or the default of
\* OuraMCPServer where the environment sets none
RedirectUriInForce ==
    IF call.server = FAST THEN config.redirect_uri
    ELSE IF env.redirect_uri = None THEN DefaultRedirectUri
    ELSE env.redirect_uri[1]

\* the five parameters an authorization URL is to carry
SuppliedParams(state) ==
    << <<Key_response_type, Value_code>>,
       <<Key_client_id, IF call.server = FAST THEN config.client_id
                        ELSE env.client_id[1]>>,
       <<Key_redirect_uri, RedirectUriInForce>>,
       <<Key_scope, call.arguments["scope"]>>,
       <<Key_state, state>> >>

\* C12: for every scope and every configured client_id and redirect_uri the
\* authorization URL is the fixed endpoint followed by a query string that
\* decodes to exactly the five parameters response_type=code, client_id,
\* redirect_uri, scope and state with the values supplied; a decoder that
\* drops empty values gives the same five whenever none of them is empty
C12_AuthUrlRoundTrip ==
    (result.msg = "AuthUrl" /\ "scope" \in DOMAIN call.arguments) =>
        /\ result.url # None
        /\ result.url[1].endpoint = "https://cloud.ouraring.com/oauth/authorize"
        /\ \E state \in Nonces :
              /\ parse_qsl(result.url[1].query, TRUE) = SuppliedParams(state)
              /\ (\A i \in 1..5 : Len(SuppliedParams(state)[i][2]) > 0) =>
                    parse_qsl(result.url[1].query, FALSE) = SuppliedParams(state)

C12_Witness ==
    /\ call = Request(MCP, "oura_auth", [scope |-> <<"&", "=">>])
    /\ env.client_id = Some(<<"a", "&", "b", "=", "%", "+", " ", "c">>)
    /\ env.redirect_uri = Some(<<"h", "t", "t", "p", ":", "/", "/", "a", " ", "b", "/", "?", "c", "=", "d", "&", "e", "#", "f">>)
    /\ result.msg = "AuthUrl"
    /\ result.url[1].query =
          <<"r", "e", "s", "p", "o", "n", "s", "e", "_", "t", "y", "p", "e", "=", "c", "o", "d", "e", "&">> \o
          <<"c", "l", "i", "e", "n", "t", "_", "i", "d", "=", "a", "%", "2", "6", "b", "%", "3", "D", "%", "2", "5", "%", "2", "B", "+", "c", "&", "r", "e", "d">> \o
          <<"i", "r", "e", "c", "t", "_", "u", "r", "i", "=", "h", "t", "t", "p", "%", "3", "A", "%", "2", "F", "%", "2", "F", "a", "+", "b", "%", "2", "F", "%", "3">> \o
          <<"F", "c", "%", "3", "D", "d", "%", "2", "6", "e", "%", "2", "3", "f", "&", "s", "c", "o", "p", "e", "=", "%", "2", "6", "%", "3", "D", "&", "s", "t", "a", "t", "e", "=", "n", "1">>

\* the last sleep request of OuraMCPServer failed: the client could not
\* perform it, or it was sent and got no 2xx answer
SleepRequestFailed ==
    \/ client[1] = MockClient
    \/ (Len(http) > 0 /\ http[Len(http)].resp.status # "ok")

\* C13: with a client set, a sleep tool of OuraMCPServer whose upstream
\* request fails (non-2xx, network error, or a client that cannot perform
\* it) has made at most one request and returns one text beginning "Error
\* fetching sleep data:", never a report and never the no-data message
C13_SleepFailureIsReportedOnce ==
    (call.server = MCP /\ call.tool \in McpSleepTools /\ client # None) =>
        /\ Len(http) <= 1
        /\ SleepRequestFailed =>
              /\ result.kind = "text"
              /\ result.msg = "FetchError"
              /\ result.lines = <<>>
              /\ result.avg = None

\* the request went out with a token the API rejects and a token it accepts
\* was set before the answer came: the failure is reported
C13_Witness ==
    /\ call = Request(MCP, "oura_week_sleep", <<>>)
    /\ client = Some(OuraClient("tokA"))
    /\ Len(http) = 1
    /\ http[1].bearer = "tokB"
    /\ http[1].resp.status = "http_error"
    /\ result = Text("FetchError", "HTTPStatusError")

\* the client the test installed cannot fetch: the handler reports it
C13_MockWitness ==
    /\ call = Request(MCP, "oura_last_night_sleep", <<>>)
    /\ client = Some(MockClient)
    /\ http = <<>>
    /\ result = Text("FetchError", "AttributeError")

\* the last call was parse_redirect_url on the URL of these parts
ParsedUrlOf(b, q, f) ==
    call = Request(FAST, "parse_redirect_url", [url |-> MakeUrl(b, q, f)])

\* the last call gave what exchange_code gives for this code
ExchangedCode(code) ==
    \E resp \in RedirectResponses :
        /\ result = exchange_code(code, resp).result
        /\ http = exchange_code(code, resp).http

\* C14 as stated: parse_redirect_url returns the token-found message, with no
\* request, when the fragment has an access_token parameter; otherwise the
\* result of exchange_code on the first code value when the query has a code
\* parameter; otherwise the nothing-found message; and it never raises
C14_ParseRedirectAsStated ==
    \A b \in RedirectBases, q \in Optional(RedirectQueries),
       f \in Optional(RedirectFragments) :
        ParsedUrlOf(b, q, f) =>
            /\ result.kind = "text"
            /\ IF f # None /\ f[1].value # None
               THEN result.msg = "TokenFound" /\ http = <<>>
               ELSE IF q # None /\ q[1].value # None
               THEN ExchangedCode(q[1].value[1])
               ELSE result.msg = "NothingFound" /\ http = <<>>

\* C14, amended: parse_redirect_url returns the token-found message, with no
\* request, when the fragment, up to a further "#", has an access_token
\* with a value that is not empty; otherwise the error-parsing message, with
\* no request, when the URL's host has an unmatched bracket; otherwise the
\* result of exchange_code on the first code value that is not empty when the
\* query has one; otherwise the nothing-found message; and it never raises
C14_ParseRedirect ==
    \A b \in RedirectBases, q \in Optional(RedirectQueries),
       f \in Optional(RedirectFragments) :
        ParsedUrlOf(b, q, f) =>
            /\ result.kind = "text"
            /\ IF f # None /\ f[1].filled # None
               THEN /\ result.msg = "TokenFound"
                    /\ result.detail.token = f[1].filled[1]
                    /\ http = <<>>
               ELSE IF ~b.valid
               THEN result.msg = "ParseError" /\ http = <<>>
               ELSE IF q # None /\ q[1].filled # None
               THEN ExchangedCode(q[1].filled[1])
               ELSE result.msg = "NothingFound" /\ http = <<>>

C14_Witness ==
    /\ call.server = FAST
    /\ call.tool = "parse_redirect_url"
    /\ call.arguments["url"] =
          <<"h", "t", "t", "p", ":", "/", "/", "[", "l", "o", "c", "a", "l", "h", "o", "s", "t", "/", "c", "a", "l", "l", "b", "a", "c", "k">> \o
          <<"?", "c", "o", "d", "e", "=", "c", "1">>
    /\ result.msg = "ParseError"
    /\ http = <<>>

\* a code behind an empty one is exchanged
C14_CodeWitness ==
    /\ call.server = FAST
    /\ call.tool = "parse_redirect_url"
    /\ call.arguments["url"] =
          <<"h", "t", "t", "p", ":", "/", "/", "l", "o", "c", "a", "l", "h", "o", "s", "t", ":", "8", "0", "8", "0", "/", "c", "a", "l", "l", "b", "a", "c", "k">> \o
          <<"?", "c", "o", "d", "e", "=", "&", "c", "o", "d", "e", "=", "c", "2", "#", "a", "c", "c", "e", "s", "s", "_", "t", "o", "k", "e", "n", "=">>
    /\ result.msg = "Authenticated"
    /\ http[1].code = <<"c", "2">>

\* the step is a call of oura_exchange_code with a code
ExchangeCall ==
    /\ call'.server = MCP
    /\ call'.tool = "oura_exchange_code"
    /\ "code" \in DOMAIN call'.arguments

\* C15: in OuraMCPServer auth is initialized only by an oura_auth call that
\* returns the authorization URL; oura_exchange_code sends a token request
\* or installs a client only when auth has been initialized in this server
\* instance, a handler of it awaits the provider only then, and otherwise it
\* returns "Must call 'oura_auth' first" without sending a request and
\* without changing auth or client
C15_ExchangeNeedsAuth ==
    [][/\ (auth = None /\ auth' # None) =>
             /\ call'.server = MCP
             /\ call'.tool = "oura_auth"
             /\ result'.msg = "AuthUrl"
       /\ (ExchangeCall /\ (http' # <<>> \/ client' # client)) => auth # None
       /\ (\E task \in BagToSet(tasks') : task.tool = "oura_exchange_code")
             => auth' # None
       /\ (ExchangeCall /\ auth = None) =>
             /\ result' = Text("MustCallAuthFirst", "")
             /\ http' = <<>>
             /\ auth' = None
             /\ client' = client]_vars

\* a code is offered to a server that holds a client and no auth
C15_Witness ==
    /\ call = Request(MCP, "oura_exchange_code", [code |-> "code1"])
    /\ auth = None
    /\ client = Some(OuraClient("tokA"))
    /\ result = Text("MustCallAuthFirst", "")
    /\ http = <<>>

\* the step is a call of oura_set_token or oura_exchange_code that reports
\* success
ReportsSuccess ==
    /\ call'.server = MCP
    /\ \/ (call'.tool = "oura_set_token" /\ result'.msg = "TokenSet")
       \/ (call'.tool = "oura_exchange_code" /\ result'.msg = "Authenticated")

\* C16: in OuraMCPServer a reported success of oura_set_token or
\* oura_exchange_code leaves a client, and within the process no later call
\* (a failed exchange, a failed sleep request, a repeated oura_auth) resets
\* the client to None or has a sleep tool return the authentication-required
\* message
C16_StaysAuthenticated ==
    [][/\ ReportsSuccess => client' # None
       /\ (client # None /\ call'.tool # "__init__") =>
             /\ client' # None
             /\ (call'.server = MCP /\ call'.tool \in McpSleepTools) =>
                   result'.msg # "AuthRequired"]_vars

\* the server still holds its client after an exchange that failed
C16_Witness ==
    /\ call = Request(MCP, "oura_exchange_code", [code |-> "code1"])
    /\ result = Text("ExchangeError", "HTTPStatusError")
    /\ Len(http) = 1
    /\ client = Some(OuraClient("tokB"))

\* C17: whenever oura_exchange_code returns an error message (the provider
\* answered non-2xx, the request failed, or the token answer lacks a field
\* the handler reads) the server's client, and so its access token, is what
\* it was before the call
C17_FailedExchangeKeepsClient ==
    [][(/\ call'.server = MCP
        /\ call'.tool = "oura_exchange_code"
        /\ result'.kind = "text"
        /\ result'.msg \in {"ExchangeError", "MustCallAuthFirst"})
          => client' = client]_vars

\* what a sleep tool of the FastMCP variant is to return, given the
\* session's access_token and the answer to its request
SleepOutcome(token, requests) ==
    IF token = "" THEN "AuthRequired"
    ELSE IF requests[1].resp.status # "ok" THEN "FetchError"
    ELSE IF "data" \notin DOMAIN requests[1].resp.body THEN "NoData"
    ELSE IF Len(requests[1].resp.body["data"]) = 0 THEN "NoData"
    ELSE IF call'.tool = "get_sleep_last_week" THEN "Week" ELSE "OneNight"

\* the step is a call of a tool of the FastMCP variant: the last call is one
\* of its tools and no handler of OuraMCPServer came to await in the step
FastCall == call'.server = FAST /\ tasks' = tasks

\* C19: in the FastMCP variant no tool changes any state: every tool,
\* exchange_code and parse_redirect_url on success included, leaves the
\* session configuration and its access_token as they were, and what a sleep
\* tool returns is settled by the session's access_token and the upstream's
\* answer alone, whatever was called before
C19_FastToolsChangeNothing ==
    [][FastCall =>
          /\ config' = config
          /\ UNCHANGED <<log, env, auth, client>>
          /\ call'.tool \in FastSleepTools =>
                /\ Len(http') = IF config.access_token = "" THEN 0 ELSE 1
                /\ \A i \in DOMAIN http' : http'[i].bearer = config.access_token
                /\ result'.kind = "text"
                /\ result'.msg = SleepOutcome(config.access_token, http')]_vars

\* exchange_code has reported success and the session still has no token
C19_Witness ==
    /\ call = Request(FAST, "exchange_code", [code |-> "code1"])
    /\ result.msg = "Authenticated"
    /\ config.access_token = ""

\* a code found in a redirect URL was exchanged and the session still has
\* no token
C19_RedirectWitness ==
    /\ call.server = FAST
    /\ call.tool = "parse_redirect_url"
    /\ result.msg = "Authenticated"
    /\ config.access_token = ""

\* a completed call that assigned self.client: oura_set_token, or an
\* oura_exchange_code whose answer was 2xx and held an access_token
IsWrite(e) ==
    \/ e.call.tool = "oura_set_token"
    \/ /\ e.call.tool = "oura_exchange_code"
       /\ Len(e.http) = 1
       /\ e.http[1].resp.status = "ok"
       /\ "access_token" \in DOMAIN e.http[1].resp.body

\* the token it assigned
WrittenToken(e) ==
    IF e.call.tool = "oura_set_token" THEN e.call.arguments["access_token"]
    ELSE e.http[1].resp.body["access_token"]

\* the writes among the completed calls, in the order of completion
WritesOf(l) == SelectSeq(l, IsWrite)

\* C18: under every interleaving of concurrent oura_set_token,
\* oura_exchange_code and sleep-tool invocations the current token is the
\* whole token of the write that completed last (none before any write), at
\* every moment and so after all calls have finished, and each sleep request
\* carries the token that was current when its handler passed the check of
\* self.client
C18_TokenOfLastWrite ==
    /\ client = IF Len(WritesOf(log)) = 0 THEN None
                ELSE Some(OuraClient(WrittenToken(WritesOf(log)[Len(WritesOf(log))])))
    /\ \A t \in DOMAIN tasks :
          (tasks[t].pc \in {"awaiting", "done"} /\ tasks[t].held # None) =>
              tasks[t].used = tasks[t].held
    /\ (Len(log) > 0 /\ call.tool \in McpSleepTools /\ Len(http) = 1) =>
          \E t \in DOMAIN tasks :
              /\ tasks[t].pc = "done"
              /\ tasks[t].tool = call.tool
              /\ tasks[t].held # None
              /\ http[1].bearer = tasks[t].held[1].access_token

\* a token was set while a sleep request was in flight: the request carried
\* the token of the check, the server holds the later one
C18_Witness ==
    /\ tasks[1].tool = "oura_week_sleep"
    /\ tasks[1].pc = "done"
    /\ tasks[2].tool = "oura_set_token"
    /\ tasks[2].pc = "done"
    /\ call.tool = "oura_week_sleep"
    /\ http[1].bearer = "tokB"
    /\ client = Some(OuraClient("tokA"))

====
